---- MODULE Spec2Model ----
(***************************************************************************)
(* Model of packetcrypt-blkmine/src/ann_class.rs: one AnnClass, its        *)
(* RwLock-protected AnnClassMut, the threads calling push_anns, steal_buf, *)
(* is_dead, ready_anns, ready_anns_bufs, read_ready_anns and               *)
(* ann_effective_work on it, and the HashTree links it invalidates.        *)
(*                                                                         *)
(* Option<T> is a sequence of length 0 (None) or 1 (Some).  A buffer is a  *)
(* record [id, data, locked]; a record of a batch is <<pusher, k>>.        *)
(***************************************************************************)
EXTENDS Integers, Sequences, FiniteSets, TLC

\* Capacity of one buffer (ANNBUF_SZ = 32 * 1024 in the source, scaled down).
BufCap == 2
\* Largest batch one push_anns call is given.
MaxBatch == 3
\* Largest number of frozen buffers the class is constructed with.
MaxInitBufs == 2
\* Largest number of dependent links associated with the class.
MaxLinks == 2

\* Largest output slice a read_ready_anns call is given.
MaxOut == 4

\* Width in bits of a block height and of a work target (32 in the source,
\* scaled down).
HeightBits == 4

\* Threads calling push_anns, threads calling steal_buf, read_ready_anns.
Pushers == {1, 2}
Stealers == {3, 4}
Copiers == {5}
Threads == Pushers \cup Stealers
\* Shared proof trees and the root hashes they can hold.
Trees == {1, 2}
Hashes == {1, 2}

None == << >>
Some(x) == <<x>>
Roots == {None} \cup {Some(h) : h \in Hashes}

VARIABLES
    bufs,             \* AnnClassMut.bufs
    topbuf,           \* AnnClassMut.topbuf
    dependent_trees,  \* AnnClassMut.dependent_trees
    mining,           \* AnnClassMut.mining
    readers,          \* threads holding AnnClass.m for reading
    writer,           \* thread holding AnnClass.m for writing
    trees,            \* ProofTree.root_hash of every shared tree
    pc,               \* position of every thread
    batch,            \* push_anns: the records the call was given
    indexes,          \* push_anns: indexes (records not yet consumed)
    total_consumed,   \* push_anns: total_consumed
    maybe_buf,        \* push_anns: maybe_buf
    newbuf,           \* push_anns: newbuf
    oldtop,           \* push_anns: oldtop
    ret,              \* push_anns: returned (count, buffer)
    sidx,             \* steal_buf: position of iter_mut over dependent_trees
    sret,             \* steal_buf: returned Result<Option<buffer>, ()>
    top0,             \* history: topbuf at construction
    pre,              \* history: bufs and topbuf when a sequential push was called
    shist,            \* history: per steal_buf call, links at entry and trees reset
    links0,           \* history: the links as they were first given to invalidate
    ncalls,           \* history: invalidate calls made on each link by the harness
    dseq,             \* history: ids of the buffers displaced from topbuf, in order
    qret,             \* is_dead / ready_anns / ready_anns_bufs: the last value returned
    cpc,              \* read_ready_anns: position of the calling thread
    v,                \* read_ready_anns: v, the (buffer, sub-slice) pairs
    out,              \* read_ready_anns: the caller's output slice
    block_height,     \* AnnClass.block_height
    min_ann_work,     \* AnnClass.min_ann_work
    eret              \* ann_effective_work: the call made and what it returned

vars == <<bufs, topbuf, dependent_trees, mining, readers, writer, trees, pc, batch,
          indexes, total_consumed, maybe_buf, newbuf, oldtop, ret, sidx, sret,
          top0, pre, shist, links0, ncalls, dseq, qret, cpc, v, out, block_height,
          min_ann_work, eret>>

classVars == <<bufs, topbuf, dependent_trees, mining>>
lockVars == <<readers, writer>>
pushVars == <<batch, indexes, total_consumed, maybe_buf, newbuf, oldtop, ret>>
stealVars == <<sidx, sret>>
histVars == <<top0, pre, shist, links0, ncalls>>
readVars == <<qret, cpc, v, out>>
workVars == <<block_height, min_ann_work, eret>>

Min(a, b) == IF a < b THEN a ELSE b

RECURSIVE SumSeq(_)
SumSeq(s) == IF s = << >> THEN 0 ELSE Head(s) + SumSeq(Tail(s))

Front(s) == SubSeq(s, 1, Len(s) - 1)
Last(s) == s[Len(s)]

(***************************************************************************)
(* AnnBuf (crate::ann_buf, not part of this file).                         *)
(***************************************************************************)
\* A buffer holding the given records.
AnnBuf(id, data, locked) == [id |-> id, data |-> data, locked |-> locked]

\* AnnBuf::next_ann_index: the fill count.
NextAnnIndex(b) == Len(b.data)

\* AnnBuf::push_anns: appends records until the buffer is full and reports
\* how many it took; a frozen buffer takes none.
AnnBufConsumed(b, idx) ==
    IF b.locked THEN 0 ELSE Min(BufCap - NextAnnIndex(b), Len(idx))

AnnBufPushAnns(b, idx) ==
    [b EXCEPT !.data = @ \o SubSeq(idx, 1, AnnBufConsumed(b, idx))]

\* AnnBuf::lock: freezes the buffer.
AnnBufLock(b) == [b EXCEPT !.locked = TRUE]

\* AnnBuf::read_ready_anns: the records the buffer holds, for a slice of n entries.
AnnBufReadReadyAnns(b, n) == SubSeq(b.data, 1, n)

\* packetcrypt_sys::difficulty::pc_degrade_announcement_target: a pure function
\* of the target and the age, left uninterpreted.
PcDegradeAnnouncementTarget(target, age) == <<"degraded", target, age>>

\* ProofTree::reset: the tree is empty again, it has no root.
ProofTreeReset(root) == None

(***************************************************************************)
(* HashTree::invalidate                                                    *)
(***************************************************************************)
\* Mutation of RootMatches: the roots are not compared.
RootMatches_Always(pfRoot, linkRoot) == TRUE

\* The comparison of line 25; taken only when the link captured a root.
RootMatches(pfRoot, linkRoot) == pfRoot = linkRoot

\* Mutation of ClearedRoot: the captured root is kept.
ClearedRoot_Kept(root) == root

\* self.root_hash = None (line 28).
ClearedRoot(root) == None

\* The link and the trees after link.invalidate().
HashTreeInvalidate(link, trs) ==
    IF link.root_hash = None
    THEN [link |-> link, trees |-> trs]
    ELSE [link |-> [link EXCEPT !.root_hash = ClearedRoot(@)],
          trees |-> IF RootMatches(trs[link.origin], link.root_hash)
                    THEN [trs EXCEPT ![link.origin] = ProofTreeReset(@)]
                    ELSE trs]

(***************************************************************************)
(* AnnClass::new / with_bufs                                               *)
(***************************************************************************)
\* The records a buffer holds before any push: <<id, k>>, id the buffer's.
InitData(id, fill) == [k \in 1..fill |-> <<id, k>>]

\* The frozen buffers a class can be constructed with: ids -1, -2, ...
RECURSIVE InitBufSeqs(_)
InitBufSeqs(n) ==
    IF n = 0 THEN {<< >>}
    ELSE LET shorter == InitBufSeqs(n - 1)
         IN shorter \cup
            {Append(s, AnnBuf(-n, InitData(-n, f), TRUE)) :
                s \in {t \in shorter : Len(t) = n - 1}, f \in 1..BufCap}

\* The active buffer a class can be constructed with: id 0.
InitTopbufs == {None} \cup {Some(AnnBuf(0, InitData(0, f), FALSE)) : f \in 0..BufCap}

\* AnnClass::new: no dependent trees, not mining, lock free.
New(tb, bs) ==
    /\ bufs = bs
    /\ topbuf = tb
    /\ dependent_trees = << >>
    /\ mining = FALSE
    /\ readers = {}
    /\ writer = None

\* AnnClass::new: the classification parameters (lines 86-88).
ClassOf(height, work) == block_height = height /\ min_ann_work = work

NoRet == [returned |-> FALSE, count |-> 0, buf |-> None]
NoSRet == [tag |-> "Pending", buf |-> None]
\* No query made yet; no ann_effective_work call made yet.
NoQRet == <<"none">>
NoERet == [called |-> FALSE, next_block_height |-> 0, value |-> <<"none">>]

ThreadsInit ==
    /\ pc = [t \in Threads |-> "idle"]
    /\ batch = [p \in Pushers |-> << >>]
    /\ indexes = [p \in Pushers |-> << >>]
    /\ total_consumed = [p \in Pushers |-> 0]
    /\ maybe_buf = [p \in Pushers |-> None]
    /\ newbuf = [p \in Pushers |-> None]
    /\ oldtop = [p \in Pushers |-> None]
    /\ ret = [p \in Pushers |-> NoRet]
    /\ sidx = [s \in Stealers |-> 1]
    /\ sret = [s \in Stealers |-> NoSRet]
    /\ pre = [p \in Pushers |-> [bufs |-> << >>, topbuf |-> None]]
    /\ shist = [s \in Stealers |-> [links |-> 0, resets |-> 0]]
    /\ ncalls = [i \in 1..MaxLinks |-> 0]
    /\ dseq = << >>
    /\ qret = NoQRet
    /\ cpc = "idle"
    /\ v = << >>
    /\ out = << >>
    /\ eret = NoERet

(***************************************************************************)
(* AnnClass::push_anns                                                     *)
(***************************************************************************)
\* The batch of n records pusher p passes: anns[indexes[0]], ...
Batch(p, n) == [k \in 1..n |-> <<p, k>>]

\* The call: maybe_buf = Some(buf), total_consumed = 0 (lines 99-100).
PushCall(p, n) ==
    /\ pc[p] = "idle"
    /\ batch' = [batch EXCEPT ![p] = Batch(p, n)]
    /\ indexes' = [indexes EXCEPT ![p] = Batch(p, n)]
    /\ total_consumed' = [total_consumed EXCEPT ![p] = 0]
    /\ maybe_buf' = [maybe_buf EXCEPT ![p] = Some(AnnBuf(p, << >>, FALSE))]
    /\ pc' = [pc EXCEPT ![p] = "rlock"]
    /\ UNCHANGED <<classVars, lockVars, trees, newbuf, oldtop, ret, stealVars, histVars>>
    /\ UNCHANGED <<dseq, readVars, workVars>>

\* The same call, remembering the class as it was (for a call that runs alone).
PushCallAlone(p, n) ==
    /\ pc[p] = "idle"
    /\ \A t \in Threads \ {p} : pc[t] \in {"idle", "done", "mined"}
    /\ batch' = [batch EXCEPT ![p] = Batch(p, n)]
    /\ indexes' = [indexes EXCEPT ![p] = Batch(p, n)]
    /\ total_consumed' = [total_consumed EXCEPT ![p] = 0]
    /\ maybe_buf' = [maybe_buf EXCEPT ![p] = Some(AnnBuf(p, << >>, FALSE))]
    /\ pc' = [pc EXCEPT ![p] = "rlock"]
    /\ pre' = [pre EXCEPT ![p] = [bufs |-> bufs, topbuf |-> topbuf]]
    /\ UNCHANGED <<classVars, lockVars, trees, newbuf, oldtop, ret, stealVars,
                   top0, shist, links0, ncalls>>
    /\ UNCHANGED <<dseq, readVars, workVars>>

\* Mutation of Accumulate: the count is overwritten.
Accumulate_Overwritten(total, consumed) == consumed

\* total_consumed += consumed (lines 107, 130).
Accumulate(total, consumed) == total + consumed

\* Mutation of Rest: the slice is not advanced.
Rest_NotAdvanced(idx, consumed) == idx

\* indexes = &indexes[consumed..] (lines 111, 134).
Rest(idx, consumed) == SubSeq(idx, consumed + 1, Len(idx))

\* RwLock::read is granted while no thread holds the lock for writing.
ReadLockFree(w) == w = None

\* Mutation of WriteLockFree: readers are not waited for.
WriteLockFree_IgnoresReaders(rs, w) == w = None

\* RwLock::write is granted while no thread holds the lock at all.
WriteLockFree(rs, w) == rs = {} /\ w = None

\* Mutation of ReadUnlock: the guard is kept.
ReadUnlock_Kept(rs, t) == rs

\* The read guard of thread t is dropped at the end of its block (line 115).
ReadUnlock(rs, t) == rs \ {t}

\* self.m.read() (line 103): waits while a writer holds the lock.
PushReadLock(p) ==
    /\ pc[p] = "rlock"
    /\ ReadLockFree(writer)
    /\ readers' = readers \cup {p}
    /\ pc' = [pc EXCEPT ![p] = "fast"]
    /\ UNCHANGED <<classVars, writer, trees, pushVars, stealVars, histVars>>
    /\ UNCHANGED <<dseq, readVars, workVars>>

\* consumed == indexes.len() (line 108).
FastReturns(consumed, remaining) == consumed = remaining

\* The append under the read lock (lines 104-115); the guard is dropped.
PushFast(p) ==
    /\ pc[p] = "fast"
    /\ p \in readers
    /\ readers' = ReadUnlock(readers, p)
    /\ IF topbuf = None
       THEN /\ pc' = [pc EXCEPT ![p] = "take"]
            /\ UNCHANGED <<topbuf, indexes, total_consumed, ret>>
       ELSE LET tb == topbuf[1]
                consumed == AnnBufConsumed(tb, indexes[p])
            IN /\ topbuf' = Some(AnnBufPushAnns(tb, indexes[p]))
               /\ total_consumed' = [total_consumed EXCEPT ![p] = Accumulate(@, consumed)]
               /\ IF FastReturns(consumed, Len(indexes[p]))
                  THEN /\ ret' = [ret EXCEPT ![p] =
                              [returned |-> TRUE,
                               count |-> Accumulate(total_consumed[p], consumed),
                               buf |-> maybe_buf[p]]]
                       /\ pc' = [pc EXCEPT ![p] = "done"]
                       /\ UNCHANGED indexes
                  ELSE /\ indexes' = [indexes EXCEPT ![p] =
                              Rest(@, consumed)]
                       /\ pc' = [pc EXCEPT ![p] = "take"]
                       /\ UNCHANGED ret
    /\ UNCHANGED <<bufs, dependent_trees, mining, writer, trees, batch, maybe_buf,
                   newbuf, oldtop, stealVars, histVars>>
    /\ UNCHANGED <<dseq, readVars, workVars>>

\* maybe_buf.take(), or the partial return (lines 116-121).
PushTake(p) ==
    /\ pc[p] = "take"
    /\ IF maybe_buf[p] # None
       THEN /\ newbuf' = [newbuf EXCEPT ![p] = maybe_buf[p]]
            /\ maybe_buf' = [maybe_buf EXCEPT ![p] = None]
            /\ pc' = [pc EXCEPT ![p] = "wlock"]
            /\ UNCHANGED ret
       ELSE /\ ret' = [ret EXCEPT ![p] =
                   [returned |-> TRUE, count |-> total_consumed[p], buf |-> None]]
            /\ pc' = [pc EXCEPT ![p] = "done"]
            /\ UNCHANGED <<newbuf, maybe_buf>>
    /\ UNCHANGED <<classVars, lockVars, trees, batch, indexes, total_consumed, oldtop,
                   stealVars, histVars>>
    /\ UNCHANGED <<dseq, readVars, workVars>>

\* self.m.write() (line 123): waits until nobody holds the lock.
PushWriteLock(p) ==
    /\ pc[p] = "wlock"
    /\ WriteLockFree(readers, writer)
    /\ writer' = Some(p)
    /\ pc' = [pc EXCEPT ![p] = "rotate"]
    /\ UNCHANGED <<classVars, readers, trees, pushVars, stealVars, histVars>>
    /\ UNCHANGED <<dseq, readVars, workVars>>

\* The double check: consumed > 0 and consumed == indexes.len() (lines 129-131).
DoubleCheckReturns(consumed, remaining) == consumed > 0 /\ consumed = remaining

\* The double check and the rotation under the write lock (lines 125-140).
PushRotate(p) ==
    /\ pc[p] = "rotate"
    /\ writer = Some(p)
    /\ writer' = None
    /\ LET consumed == IF topbuf = None THEN 0
                       ELSE AnnBufConsumed(topbuf[1], indexes[p])
           tb == IF topbuf = None THEN None
                 ELSE Some(AnnBufPushAnns(topbuf[1], indexes[p]))
       IN /\ total_consumed' = [total_consumed EXCEPT ![p] = Accumulate(@, consumed)]
          /\ newbuf' = [newbuf EXCEPT ![p] = None]
          /\ IF topbuf # None /\ DoubleCheckReturns(consumed, Len(indexes[p]))
             THEN /\ topbuf' = tb
                  /\ ret' = [ret EXCEPT ![p] =
                         [returned |-> TRUE,
                          count |-> Accumulate(total_consumed[p], consumed),
                          buf |-> newbuf[p]]]
                  /\ pc' = [pc EXCEPT ![p] = "done"]
                  /\ UNCHANGED <<indexes, oldtop, dseq>>
             ELSE /\ indexes' = [indexes EXCEPT ![p] =
                         Rest(@, consumed)]
                  /\ topbuf' = newbuf[p]
                  /\ oldtop' = [oldtop EXCEPT ![p] = tb]
                  /\ dseq' = IF tb = None THEN dseq ELSE Append(dseq, tb[1].id)
                  /\ pc' = [pc EXCEPT ![p] = IF tb = None THEN "rlock" ELSE "freeze"]
                  /\ UNCHANGED ret
    /\ UNCHANGED <<bufs, dependent_trees, mining, readers, trees, batch, maybe_buf,
                   stealVars, histVars>>
    /\ UNCHANGED <<readVars, workVars>>

\* Mutation of Frozen: the buffer is not locked.
Frozen_NotLocked(ot) == ot

\* oldtop.lock() (line 142).
Frozen(ot) == Some(AnnBufLock(ot[1]))

\* oldtop.lock() (line 142), outside the class lock.
PushFreeze(p) ==
    /\ pc[p] = "freeze"
    /\ oldtop' = [oldtop EXCEPT ![p] = Frozen(@)]
    /\ pc' = [pc EXCEPT ![p] = "insert"]
    /\ UNCHANGED <<classVars, lockVars, trees, batch, indexes, total_consumed, maybe_buf,
                   newbuf, ret, stealVars, histVars>>
    /\ UNCHANGED <<dseq, readVars, workVars>>

\* Mutation of BufsPush: the buffer is put in front.
BufsPush_Front(bs, b) == <<b>> \o bs

\* bufs.push(oldtop) (line 143).
BufsPush(bs, b) == Append(bs, b)

\* self.m.write().unwrap().bufs.push(oldtop) (line 143), then the loop again.
PushInsert(p) ==
    /\ pc[p] = "insert"
    /\ WriteLockFree(readers, writer)
    /\ bufs' = BufsPush(bufs, oldtop[p][1])
    /\ oldtop' = [oldtop EXCEPT ![p] = None]
    /\ pc' = [pc EXCEPT ![p] = "rlock"]
    /\ UNCHANGED <<topbuf, dependent_trees, mining, lockVars, trees, batch, indexes,
                   total_consumed, maybe_buf, newbuf, ret, stealVars, histVars>>
    /\ UNCHANGED <<dseq, readVars, workVars>>

(***************************************************************************)
(* AnnClass::ready_anns, ready_anns_bufs, is_dead                          *)
(***************************************************************************)
RECURSIVE FillCounts(_)
FillCounts(bs) ==
    IF bs = << >> THEN << >> ELSE <<NextAnnIndex(Head(bs))>> \o FillCounts(Tail(bs))

\* Mutation of ReadyAnns: the active buffer is counted too.
ReadyAnns_WithTopbuf(bs) == SumSeq(FillCounts(bs \o topbuf))

\* m.bufs.iter().map(|b| b.next_ann_index()).sum()
ReadyAnns(bs) == SumSeq(FillCounts(bs))

\* ready_anns (lines 167-170): the sum, taken under the read lock.
ReadyAnnsCall ==
    /\ ReadLockFree(writer)
    /\ qret' = <<"ready_anns", ReadyAnns(bufs)>>
    /\ UNCHANGED <<classVars, lockVars, trees, pc, pushVars, stealVars, histVars, dseq,
                   cpc, v, out, workVars>>

\* (anns, m.bufs.len()) (lines 174-175).
ReadyAnnsBufs(bs) == <<ReadyAnns(bs), Len(bs)>>

\* ready_anns_bufs (lines 172-176): both values under one read lock.
ReadyAnnsBufsCall ==
    /\ ReadLockFree(writer)
    /\ qret' = <<"ready_anns_bufs">> \o ReadyAnnsBufs(bufs)
    /\ UNCHANGED <<classVars, lockVars, trees, pc, pushVars, stealVars, histVars, dseq,
                   cpc, v, out, workVars>>

\* Mutation of IsDead: the active slot is not looked at.
IsDead_IgnoresTopbuf(bs, tb) == Len(bs) = 0

\* m.bufs.len() == 0 && m.topbuf.is_none() (line 150).
IsDead(bs, tb) == Len(bs) = 0 /\ tb = None

\* is_dead (lines 148-151): the test, under the read lock.
IsDeadCall ==
    /\ ReadLockFree(writer)
    /\ qret' = <<"is_dead", IsDead(bufs, topbuf)>>
    /\ UNCHANGED <<classVars, lockVars, trees, pc, pushVars, stealVars, histVars, dseq,
                   cpc, v, out, workVars>>

(***************************************************************************)
(* AnnClass::read_ready_anns                                               *)
(***************************************************************************)
\* An entry of the caller's slice the copy has not written.
Blank == <<0, 0>>
BlankSlice(size) == [i \in 1..size |-> Blank]

\* Mutation of Excess: the slice is not advanced.
Excess_NotAdvanced(start, this) == start

\* out = excess (line 187): where what is left of the slice starts.
Excess(start, this) == start + this

\* The loop of lines 183-188 over the buffers bs, for what is left of the slice
\* (from start, remaining entries): the (buffer, sub-slice) pairs, or the panic
\* of split_at_mut when fewer entries remain than the buffer holds.
RECURSIVE Split(_, _, _)
Split(bs, start, remaining) ==
    IF bs = << >> THEN [ok |-> TRUE, v |-> << >>]
    ELSE LET this == NextAnnIndex(Head(bs))
         IN IF this > remaining THEN [ok |-> FALSE, v |-> << >>]
            ELSE LET r == Split(Tail(bs), Excess(start, this), remaining - this)
                 IN [ok |-> r.ok,
                     v |-> <<[b |-> Head(bs), start |-> start, len |-> this,
                              copied |-> FALSE]>> \o r.v]

\* self.m.read() and the split (lines 179-188), for a slice of size entries.
ReadReadyAnnsCall(c, size) ==
    /\ cpc = "idle"
    /\ ReadLockFree(writer)
    /\ out' = BlankSlice(size)
    /\ LET r == Split(bufs, 1, size)
       IN IF r.ok
          THEN /\ v' = r.v
               /\ readers' = readers \cup {c}
               /\ cpc' = "copy"
          ELSE /\ v' = << >>
               /\ cpc' = "panic"
               /\ UNCHANGED readers
    /\ UNCHANGED <<classVars, writer, trees, pc, pushVars, stealVars, histVars, dseq, qret,
                   workVars>>

\* One task of v.into_par_iter().for_each (lines 190-192), in any order.
ReadReadyAnnsCopy(c, i) ==
    /\ cpc = "copy"
    /\ c \in readers
    /\ i \in DOMAIN v
    /\ ~v[i].copied
    /\ out' = [j \in DOMAIN out |->
                  IF v[i].start <= j /\ j < v[i].start + v[i].len
                  THEN AnnBufReadReadyAnns(v[i].b, v[i].len)[j - v[i].start + 1]
                  ELSE out[j]]
    /\ v' = [v EXCEPT ![i].copied = TRUE]
    /\ UNCHANGED <<classVars, lockVars, trees, pc, pushVars, stealVars, histVars, dseq, qret,
                   cpc, workVars>>

\* All tasks have run: the call returns and the read guard is dropped (line 193).
ReadReadyAnnsReturn(c) ==
    /\ cpc = "copy"
    /\ c \in readers
    /\ \A i \in DOMAIN v : v[i].copied
    /\ readers' = ReadUnlock(readers, c)
    /\ cpc' = "done"
    /\ UNCHANGED <<classVars, writer, trees, pc, pushVars, stealVars, histVars, dseq, qret,
                   v, out, workVars>>

(***************************************************************************)
(* AnnClass::ann_effective_work                                            *)
(***************************************************************************)
\* u32 arithmetic: a result out of range panics in a build with overflow
\* checks (debug) and wraps in one without (release).
U32 == 2 ^ HeightBits
Builds == {"debug", "release"}
AddU32(a, b, build) ==
    IF a + b < U32 THEN Some(a + b)
    ELSE IF build = "debug" THEN None ELSE Some(a + b - U32)
SubU32(a, b, build) ==
    IF a >= b THEN Some(a - b)
    ELSE IF build = "debug" THEN None ELSE Some(a - b + U32)

Heights == 0..(U32 - 1)
Works == {1, U32 - 1}

\* What a call yields: a panic, self.min_ann_work, or the degraded target.
Panicked == <<"panic">>
Undegraded(work) == <<"target", work>>

\* The body of ann_effective_work (lines 198-201).
AnnEffectiveWorkValue(height, work, next_block_height, build) ==
    LET sum == AddU32(height, 3, build)
    IN IF sum = None THEN Panicked
       ELSE IF sum[1] < next_block_height THEN Undegraded(work)
       ELSE LET age == SubU32(next_block_height, height, build)
            IN IF age = None THEN Panicked
               ELSE PcDegradeAnnouncementTarget(work, age[1])

\* ann_effective_work(next_block_height) (lines 197-202); it takes no lock.
AnnEffectiveWork(next_block_height, build) ==
    /\ eret' = [called |-> TRUE, next_block_height |-> next_block_height,
                value |-> AnnEffectiveWorkValue(block_height, min_ann_work,
                                                next_block_height, build)]
    /\ UNCHANGED <<classVars, lockVars, trees, pc, pushVars, stealVars, histVars, dseq,
                   readVars, block_height, min_ann_work>>

(***************************************************************************)
(* AnnClass::steal_buf                                                     *)
(***************************************************************************)
Err == [tag |-> "Err", buf |-> None]
Ok(b) == [tag |-> "Ok", buf |-> b]

\* Mutation of StealRefused: the latch is not looked at.
StealRefused_Never(flag) == FALSE

\* if m.mining (line 155).
StealRefused(flag) == flag

\* Mutation of StealTakesTop: the active buffer is taken whatever bufs holds.
StealTakesTop_Always(bs) == TRUE

\* if m.bufs.is_empty() (line 158).
StealTakesTop(bs) == bs = << >>

\* self.m.write() and the two early returns (lines 154-160).
StealBegin(s) ==
    /\ pc[s] = "idle"
    /\ WriteLockFree(readers, writer)
    /\ sidx' = [sidx EXCEPT ![s] = 1]
    /\ shist' = [shist EXCEPT ![s] = [links |-> Len(dependent_trees), resets |-> 0]]
    /\ IF StealRefused(mining)
       THEN /\ sret' = [sret EXCEPT ![s] = Err]
            /\ pc' = [pc EXCEPT ![s] = "done"]
            /\ UNCHANGED <<topbuf, writer>>
       ELSE IF StealTakesTop(bufs)
       THEN /\ sret' = [sret EXCEPT ![s] = Ok(topbuf)]
            /\ topbuf' = None
            /\ pc' = [pc EXCEPT ![s] = "done"]
            /\ UNCHANGED writer
       ELSE /\ writer' = Some(s)
            /\ pc' = [pc EXCEPT ![s] = "inval"]
            /\ UNCHANGED <<topbuf, sret>>
    /\ UNCHANGED <<bufs, dependent_trees, mining, readers, trees, pushVars, top0, pre,
                   links0, ncalls>>
    /\ UNCHANGED <<dseq, readVars, workVars>>

\* One step of m.dependent_trees.iter_mut().for_each(|t| t.invalidate()) (line 162);
\* invalidate takes the tree's own mutex, so other threads change trees in between.
StealInvalidate(s) ==
    /\ pc[s] = "inval"
    /\ writer = Some(s)
    /\ sidx[s] <= Len(dependent_trees)
    /\ LET r == HashTreeInvalidate(dependent_trees[sidx[s]], trees)
       IN /\ dependent_trees' = [dependent_trees EXCEPT ![sidx[s]] = r.link]
          /\ trees' = r.trees
          /\ shist' = [shist EXCEPT ![s].resets = IF r.trees # trees THEN @ + 1 ELSE @]
    /\ sidx' = [sidx EXCEPT ![s] = @ + 1]
    /\ UNCHANGED <<bufs, topbuf, mining, lockVars, pc, pushVars, sret, top0, pre, links0,
                   ncalls>>
    /\ UNCHANGED <<dseq, readVars, workVars>>

\* Mutation of BufsPop: the first buffer is removed.
BufsPop_First(bs) == [rest |-> Tail(bs), buf |-> Some(Head(bs))]

\* m.bufs.pop() (line 164): the last buffer, and what is left.
BufsPop(bs) ==
    IF bs = << >> THEN [rest |-> bs, buf |-> None]
    ELSE [rest |-> Front(bs), buf |-> Some(Last(bs))]

\* m.dependent_trees.clear(); Ok(m.bufs.pop()) (lines 163-164).
StealFinish(s) ==
    /\ pc[s] = "inval"
    /\ writer = Some(s)
    /\ sidx[s] > Len(dependent_trees)
    /\ dependent_trees' = << >>
    /\ bufs' = BufsPop(bufs).rest
    /\ sret' = [sret EXCEPT ![s] = Ok(BufsPop(bufs).buf)]
    /\ writer' = None
    /\ pc' = [pc EXCEPT ![s] = "done"]
    /\ UNCHANGED <<topbuf, mining, readers, trees, pushVars, sidx, histVars>>
    /\ UNCHANGED <<dseq, readVars, workVars>>

(***************************************************************************)
(* The callers of the class: the miner's latch, the proof-tree builders.   *)
(***************************************************************************)
\* A thread holds the buffer steal_buf returned to it.
HoldsBuffer(s) == pc[s] \in {"done", "mining"} /\ sret[s].tag = "Ok" /\ sret[s].buf # None

\* The caller sets the latch once it holds a stolen buffer.
CallerSetMining(s) ==
    /\ pc[s] = "done"
    /\ HoldsBuffer(s)
    /\ WriteLockFree(readers, writer)
    /\ mining' = TRUE
    /\ pc' = [pc EXCEPT ![s] = "mining"]
    /\ UNCHANGED <<bufs, topbuf, dependent_trees, lockVars, trees, pushVars, stealVars,
                   histVars>>
    /\ UNCHANGED <<dseq, readVars, workVars>>

\* The caller clears the latch when it has finished mining with the buffer.
CallerClearMining(s) ==
    /\ pc[s] = "mining"
    /\ WriteLockFree(readers, writer)
    /\ mining' = FALSE
    /\ pc' = [pc EXCEPT ![s] = "mined"]
    /\ UNCHANGED <<bufs, topbuf, dependent_trees, lockVars, trees, pushVars, stealVars,
                   histVars>>
    /\ UNCHANGED <<dseq, readVars, workVars>>

\* A proof-tree builder associates tree tr with the class, capturing its root.
AddLink(tr) ==
    /\ Len(dependent_trees) < MaxLinks
    /\ WriteLockFree(readers, writer)
    /\ dependent_trees' = Append(dependent_trees, [origin |-> tr, root_hash |-> trees[tr]])
    /\ UNCHANGED <<bufs, topbuf, mining, lockVars, trees, pc, pushVars, stealVars, histVars>>
    /\ UNCHANGED <<dseq, readVars, workVars>>

\* A tree is rebuilt (or reset) by its owner: its root becomes r.
TreeBuild(tr, r) ==
    /\ trees[tr] # r
    /\ trees' = [trees EXCEPT ![tr] = r]
    /\ UNCHANGED <<classVars, lockVars, pc, pushVars, stealVars, histVars>>
    /\ UNCHANGED <<dseq, readVars, workVars>>

\* link.invalidate() called on its own on the i-th link (at most twice per link).
MaxInvalidate == 2

Invalidate(i) ==
    /\ i \in 1..Len(dependent_trees)
    /\ ncalls[i] < MaxInvalidate
    /\ LET r == HashTreeInvalidate(dependent_trees[i], trees)
       IN /\ dependent_trees' = [dependent_trees EXCEPT ![i] = r.link]
          /\ trees' = r.trees
    /\ ncalls' = [ncalls EXCEPT ![i] = @ + 1]
    /\ UNCHANGED <<bufs, topbuf, mining, lockVars, pc, pushVars, stealVars, top0, pre,
                   shist, links0>>
    /\ UNCHANGED <<dseq, readVars, workVars>>

(***************************************************************************)
(* Specifications                                                          *)
(***************************************************************************)
\* Spec: two threads push while one steals; the class starts with an active
\* buffer slot of any fill and no frozen buffers.
ThePushers == Pushers
TheStealer == {3}

Init ==
    /\ \E tb \in InitTopbufs : New(tb, << >>) /\ top0 = tb
    /\ trees = [tr \in Trees |-> None]
    /\ links0 = << >>
    /\ ClassOf(0, 0)
    /\ ThreadsInit

Next ==
    \/ \E p \in ThePushers, n \in 0..MaxBatch : PushCall(p, n)
    \/ \E p \in ThePushers : PushReadLock(p)
    \/ \E p \in ThePushers : PushFast(p)
    \/ \E p \in ThePushers : PushTake(p)
    \/ \E p \in ThePushers : PushWriteLock(p)
    \/ \E p \in ThePushers : PushRotate(p)
    \/ \E p \in ThePushers : PushFreeze(p)
    \/ \E p \in ThePushers : PushInsert(p)
    \/ \E s \in TheStealer : StealBegin(s)
    \/ \E s \in TheStealer : StealFinish(s)

Spec == Init /\ [][Next]_vars

\* SpecRead: the same threads, and a thread that asks is_dead, ready_anns and
\* ready_anns_bufs at any moment.
NextRead ==
    \/ Next
    \/ ReadyAnnsCall
    \/ ReadyAnnsBufsCall
    \/ IsDeadCall

SpecRead == Init /\ [][NextRead]_vars

\* SpecSeq: the same operations called one after the other, no call overlapping
\* another.
Quiet(t) == \A u \in Threads \ {t} : pc[u] \in {"idle", "done", "mined"}

InitSeq ==
    /\ \E tb \in InitTopbufs, bs \in InitBufSeqs(1) : New(tb, bs) /\ top0 = tb
    /\ trees = [tr \in Trees |-> None]
    /\ links0 = << >>
    /\ ClassOf(0, 0)
    /\ ThreadsInit

NextSeq ==
    \/ \E p \in ThePushers, n \in 0..MaxBatch : PushCallAlone(p, n)
    \/ \E p \in ThePushers : PushReadLock(p)
    \/ \E p \in ThePushers : PushFast(p)
    \/ \E p \in ThePushers : PushTake(p)
    \/ \E p \in ThePushers : PushWriteLock(p)
    \/ \E p \in ThePushers : PushRotate(p)
    \/ \E p \in ThePushers : PushFreeze(p)
    \/ \E p \in ThePushers : PushInsert(p)
    \/ \E s \in TheStealer : Quiet(s) /\ StealBegin(s)
    \/ \E s \in TheStealer : StealFinish(s)

SpecSeq == InitSeq /\ [][NextSeq]_vars

\* SpecSteal: two miners steal from a class constructed with any frozen
\* buffers, setting the latch around the buffer they hold, while one thread
\* pushes.
ThePusher == {1}

InitSteal ==
    /\ \E tb \in InitTopbufs, bs \in InitBufSeqs(MaxInitBufs) : New(tb, bs) /\ top0 = tb
    /\ trees = [tr \in Trees |-> None]
    /\ links0 = << >>
    /\ ClassOf(0, 0)
    /\ ThreadsInit

NextSteal ==
    \/ \E p \in ThePusher, n \in 0..MaxBatch : PushCall(p, n)
    \/ \E p \in ThePusher : PushReadLock(p)
    \/ \E p \in ThePusher : PushFast(p)
    \/ \E p \in ThePusher : PushTake(p)
    \/ \E p \in ThePusher : PushWriteLock(p)
    \/ \E p \in ThePusher : PushRotate(p)
    \/ \E p \in ThePusher : PushFreeze(p)
    \/ \E p \in ThePusher : PushInsert(p)
    \/ \E s \in Stealers : StealBegin(s)
    \/ \E s \in Stealers : StealFinish(s)
    \/ \E s \in Stealers : CallerSetMining(s)
    \/ \E s \in Stealers : CallerClearMining(s)

SpecSteal == InitSteal /\ [][NextSteal]_vars

\* SpecCopy: one thread copies the frozen buffers out into a slice of any size
\* up to MaxOut while one thread pushes and one steals.
NextCopy ==
    \/ \E p \in ThePusher, n \in 0..MaxBatch : PushCall(p, n)
    \/ \E p \in ThePusher : PushReadLock(p)
    \/ \E p \in ThePusher : PushFast(p)
    \/ \E p \in ThePusher : PushTake(p)
    \/ \E p \in ThePusher : PushWriteLock(p)
    \/ \E p \in ThePusher : PushRotate(p)
    \/ \E p \in ThePusher : PushFreeze(p)
    \/ \E p \in ThePusher : PushInsert(p)
    \/ \E s \in TheStealer : StealBegin(s)
    \/ \E s \in TheStealer : StealFinish(s)
    \/ \E c \in Copiers, size \in 0..MaxOut : ReadReadyAnnsCall(c, size)
    \/ \E c \in Copiers, i \in 1..(MaxInitBufs + 1) : ReadReadyAnnsCopy(c, i)
    \/ \E c \in Copiers : ReadReadyAnnsReturn(c)

SpecCopy == InitSteal /\ [][NextCopy]_vars

\* SpecLinks: proof-tree builders associate trees with the class and rebuild
\* them while two miners steal; the class starts with or without an active
\* buffer (holding one record) and with or without one full frozen buffer.
InitLinks ==
    /\ \E tb \in {None, Some(AnnBuf(0, InitData(0, 1), FALSE))},
          bs \in {<< >>, <<AnnBuf(-1, InitData(-1, BufCap), TRUE)>>} :
          New(tb, bs) /\ top0 = tb
    /\ trees = [tr \in Trees |-> None]
    /\ links0 = << >>
    /\ ClassOf(0, 0)
    /\ ThreadsInit

NextLinks ==
    \/ \E tr \in Trees : AddLink(tr)
    \/ \E tr \in Trees, r \in Roots : TreeBuild(tr, r)
    \/ \E s \in Stealers : StealBegin(s)
    \/ \E s \in Stealers : StealInvalidate(s)
    \/ \E s \in Stealers : StealFinish(s)
    \/ \E s \in Stealers : CallerSetMining(s)
    \/ \E s \in Stealers : CallerClearMining(s)

SpecLinks == InitLinks /\ [][NextLinks]_vars

\* SpecInv: invalidate applied to links of every kind, over trees of every
\* root, which their owners go on rebuilding.
LinkValues == [origin : Trees, root_hash : Roots]

RECURSIVE LinkSeqs(_)
LinkSeqs(n) ==
    IF n = 0 THEN {<< >>}
    ELSE {Append(s, l) : s \in LinkSeqs(n - 1), l \in LinkValues}

InitInv ==
    /\ bufs = << >>
    /\ topbuf = None
    /\ top0 = None
    /\ mining = FALSE
    /\ readers = {}
    /\ writer = None
    /\ dependent_trees \in LinkSeqs(MaxLinks)
    /\ links0 = dependent_trees
    /\ trees \in [Trees -> Roots]
    /\ ClassOf(0, 0)
    /\ ThreadsInit

NextInv ==
    \/ \E i \in 1..MaxLinks : Invalidate(i)
    \/ \E tr \in Trees, r \in Roots : TreeBuild(tr, r)

SpecInv == InitInv /\ [][NextInv]_vars

\* SpecFair: two threads push, one steals and one copies the frozen buffers
\* out into a slice of MaxOut entries, under a scheduler that lets every
\* thread that is in a call and can take a step eventually take one (whether
\* a call is made at all is up to the caller).  is_dead, ready_anns and
\* ready_anns_bufs hold the read lock for one step only and are left out.
PushStep(p) ==
    \/ PushReadLock(p)
    \/ PushFast(p)
    \/ PushTake(p)
    \/ PushWriteLock(p)
    \/ PushRotate(p)
    \/ PushFreeze(p)
    \/ PushInsert(p)

CopyStep(c) ==
    \/ \E i \in 1..(MaxInitBufs + 1) : ReadReadyAnnsCopy(c, i)
    \/ ReadReadyAnnsReturn(c)

NextFair ==
    \/ Next
    \/ \E c \in Copiers : ReadReadyAnnsCall(c, MaxOut)
    \/ \E c \in Copiers : CopyStep(c)

Fairness ==
    /\ \A p \in ThePushers : WF_vars(PushStep(p))
    /\ \A s \in TheStealer : WF_vars(StealFinish(s))
    /\ \A c \in Copiers : WF_vars(CopyStep(c))

SpecFair == Init /\ [][NextFair]_vars /\ Fairness

\* SpecWork: ann_effective_work called with any height on classes of any height
\* and either work target.
InitWork ==
    /\ New(None, << >>) /\ top0 = None
    /\ trees = [tr \in Trees |-> None]
    /\ links0 = << >>
    /\ \E height \in Heights, work \in Works : ClassOf(height, work)
    /\ ThreadsInit

NextWork == \E next_block_height \in Heights, build \in Builds :
                AnnEffectiveWork(next_block_height, build)

SpecWork == InitWork /\ [][NextWork]_vars

(***************************************************************************)
(* Properties                                                              *)
(***************************************************************************)
Count(r, seq) == Cardinality({i \in DOMAIN seq : seq[i] = r})

RECURSIVE DataOf(_)
DataOf(bs) == IF bs = << >> THEN << >> ELSE Head(bs).data \o DataOf(Tail(bs))

\* The contents of the frozen buffers followed by the active buffer's.
ClassRecords == DataOf(bufs \o topbuf)

\* The push calls made so far; all of them have returned; no steal has run.
Called == {p \in Pushers : pc[p] # "idle"}
AllReturned == Called # {} /\ \A p \in Called : pc[p] = "done"
NoSteal == \A s \in Stealers : pc[s] = "idle"

\* The records of all batches, and those the calls reported as consumed.
InputRecords == UNION {{batch[p][k] : k \in 1..Len(batch[p])} : p \in Called}
ReportedRecords == UNION {{batch[p][k] : k \in 1..ret[p].count} : p \in Called}

\* The records of the batches the class holds are exactly those of E, once each.
StoredExactlyOnce(E) ==
    /\ \A r \in E : Count(r, ClassRecords) = 1
    /\ \A i \in DOMAIN ClassRecords :
          ClassRecords[i][1] \in Pushers => ClassRecords[i] \in E

FreeSlots(tb) == IF tb = None THEN 0 ELSE BufCap - NextAnnIndex(tb[1])
SuppliedCapacity == FreeSlots(top0) + BufCap * Cardinality(Called)

\* C1 as stated: when the combined batch size does not exceed the supplied
\* capacity, all calls have returned and no steal has run, every record of every
\* batch is stored exactly once in the frozen and active buffers.
C1_AllStoredWithinCapacity ==
    (AllReturned /\ NoSteal /\ Cardinality(InputRecords) <= SuppliedCapacity)
        => StoredExactlyOnce(InputRecords)

\* C1 amended: when all calls have returned and no steal has run, the records of
\* the batches held by the frozen and active buffers are exactly the records the
\* calls reported as consumed (the first count records of each batch), once each.
C1_ReportedStoredOnce ==
    (AllReturned /\ NoSteal)
        => /\ \A p \in Called : ret[p].count <= Len(batch[p])
           /\ StoredExactlyOnce(ReportedRecords)

\* Two calls of two records or more returned in full after a rotation, no steal.
C1_Witness ==
    /\ AllReturned /\ NoSteal /\ Called = Pushers
    /\ \A p \in Pushers : Len(batch[p]) >= 2 /\ ret[p].count = Len(batch[p])
    /\ bufs # << >>

\* C2: while mining is set, a steal_buf call returns Err(()) and leaves bufs,
\* topbuf, dependent_trees and mining as they were; no call hands out a buffer.
C2_RefusedWhileMining ==
    [][\A s \in Stealers :
          (mining /\ pc[s] # pc'[s] /\ pc[s] \in {"idle", "inval"})
              => /\ sret'[s] = Err
                 /\ pc'[s] = "done"
                 /\ UNCHANGED <<bufs, topbuf, dependent_trees, mining>>]_vars

\* A call was refused by the latch although the class held buffers.
C2_Witness ==
    /\ mining
    /\ bufs # << >> /\ topbuf # None
    /\ \E s \in Stealers : pc[s] = "done" /\ sret[s] = Err

\* C3: of the steal_buf calls issued against one class, at most one holds a
\* buffer at any time; the others were refused.
C3_OneHandOff == Cardinality({s \in Stealers : HoldsBuffer(s)}) <= 1

\* C4: with mining false and bufs not empty, steal_buf returns the last buffer
\* of bufs, leaves the others in order and topbuf untouched, and ready_anns
\* drops by the fill count of the buffer returned.
C4_StealTakesLast ==
    [][\A s \in Stealers :
          /\ (pc[s] = "idle" /\ pc'[s] # "idle" /\ ~mining /\ bufs # << >>)
                => (pc'[s] = "inval" /\ UNCHANGED <<bufs, topbuf, sret>>)
          /\ (pc[s] = "inval" /\ pc'[s] = "inval") => UNCHANGED <<bufs, topbuf, mining>>
          /\ (pc[s] = "inval" /\ pc'[s] = "done")
                => /\ ~mining /\ bufs # << >>
                   /\ sret'[s] = Ok(Some(bufs[Len(bufs)]))
                   /\ bufs' = SubSeq(bufs, 1, Len(bufs) - 1)
                   /\ topbuf' = topbuf
                   /\ ReadyAnns(bufs') = ReadyAnns(bufs) - NextAnnIndex(sret'[s].buf[1])]_vars

\* Of two frozen buffers, the last (full) one was returned; the first, holding
\* one record fewer, is left and is all ready_anns counts; topbuf is still there.
C4_Witness ==
    \E s \in Stealers :
        /\ pc[s] = "done" /\ sret[s].tag = "Ok" /\ sret[s].buf # None
        /\ sret[s].buf[1].id = -2 /\ NextAnnIndex(sret[s].buf[1]) = BufCap
        /\ Len(bufs) = 1 /\ bufs[1].id = -1
        /\ ReadyAnns(bufs) = BufCap - 1
        /\ topbuf = top0 /\ topbuf # None

\* C5: steal_buf returns the active buffer only when mining is false and bufs is
\* empty; the class then holds no buffer, and the links and their trees are as
\* they were. With no active buffer either it returns Ok(None), which is not Err.
C5_StealTakesTop ==
    [][/\ \A s \in Stealers :
             /\ (pc[s] = "idle" /\ pc'[s] = "done" /\ sret'[s].tag = "Ok")
                   => /\ ~mining /\ bufs = << >>
                      /\ sret'[s].buf = topbuf
                      /\ topbuf' = None /\ bufs' = << >>
                      /\ UNCHANGED <<dependent_trees, trees>>
             /\ (pc[s] = "idle" /\ pc'[s] # "idle" /\ ~mining /\ bufs = << >>)
                   => (sret'[s] = Ok(topbuf) /\ sret'[s] # Err /\ pc'[s] = "done")
             /\ (pc[s] = "inval" /\ pc'[s] = "done") => topbuf' = topbuf
       /\ topbuf' # topbuf
             => \E s \in Stealers : pc[s] = "idle" /\ sret'[s] = Ok(topbuf)]_vars

\* The active buffer was stolen from a class with links that captured a root;
\* the links are still there, with their roots.
C5_Witness ==
    \E s \in Stealers :
        /\ pc[s] = "done" /\ sret[s].tag = "Ok" /\ sret[s].buf # None
        /\ sret[s].buf[1].id = 0
        /\ shist[s].links = MaxLinks
        /\ Len(dependent_trees) = MaxLinks
        /\ \A i \in DOMAIN dependent_trees : dependent_trees[i].root_hash # None
        /\ bufs = << >> /\ topbuf = None

\* C6: in a steal_buf that removes a frozen buffer, each link is invalidated in
\* turn: the tree of a link whose captured root equals the tree's root at that
\* moment is reset, any other tree and every tree of a link with another or no
\* captured root is left as it is; when the buffer is returned every link has
\* been invalidated and dependent_trees is empty.
C6_StealInvalidatesLinks ==
    [][\A s \in Stealers :
          /\ (pc[s] = "inval" /\ sidx'[s] # sidx[s])
                => LET l == dependent_trees[sidx[s]]
                   IN /\ sidx'[s] = sidx[s] + 1
                      /\ trees' = IF l.root_hash # None /\ trees[l.origin] = l.root_hash
                                  THEN [trees EXCEPT ![l.origin] = None]
                                  ELSE trees
                      /\ dependent_trees'[sidx[s]].root_hash = None
          /\ (pc[s] = "inval" /\ pc'[s] = "done")
                => /\ sidx[s] = shist[s].links + 1
                   /\ \A i \in DOMAIN dependent_trees : dependent_trees[i].root_hash = None
                   /\ dependent_trees' = << >>
                   /\ sret'[s].buf # None /\ Len(bufs') = Len(bufs) - 1]_vars

\* A steal_buf that found links returned a frozen buffer after resetting the
\* tree of one of them; a tree has a root when it returns.
C6_Witness ==
    \E s \in Stealers :
        /\ pc[s] = "done" /\ sret[s].tag = "Ok" /\ sret[s].buf # None
        /\ sret[s].buf[1].locked
        /\ shist[s].links = MaxLinks /\ shist[s].resets = 1
        /\ \E tr \in Trees : trees[tr] # None
        /\ dependent_trees = << >>

\* C7: invalidate leaves the link without a captured root; invalidate of a link
\* that has been invalidated before, or never captured a root, changes neither
\* the link nor any tree, whatever the roots of the trees.
C7_InvalidateIdempotent ==
    [][\A i \in DOMAIN dependent_trees :
          ncalls'[i] # ncalls[i]
              => /\ dependent_trees'[i].root_hash = None
                 /\ (ncalls[i] >= 1 \/ dependent_trees[i].root_hash = None)
                       => UNCHANGED <<dependent_trees, trees>>]_vars

\* A link was invalidated a second time while its tree again held the root the
\* link had captured; the tree still holds it.
C7_Witness ==
    \E i \in DOMAIN dependent_trees :
        /\ ncalls[i] = 2
        /\ links0[i].root_hash # None
        /\ trees[links0[i].origin] = links0[i].root_hash
        /\ dependent_trees[i].root_hash = None

\* Every buffer there is: those of the class, those displaced and not yet
\* inserted, those returned by steal_buf.
RECURSIVE FlatOver(_, _)
FlatOver(f, S) ==
    IF S = {} THEN << >>
    ELSE LET x == CHOOSE y \in S : TRUE IN f[x] \o FlatOver(f, S \ {x})

ClassBufs == bufs \o topbuf
AllBufs == ClassBufs \o FlatOver(oldtop, Pushers)
               \o FlatOver([s \in Stealers |-> sret[s].buf], Stealers)

\* The records of pusher p in a sequence of records, in the order they have there.
OfPusher(p, seq) == SelectSeq(seq, LAMBDA r : r[1] = p)

\* The records of p's batch found in the buffers are the first n, once each, and
\* within each buffer in the order of the batch.
StoredPrefix(p, n, bs) ==
    /\ n <= Len(batch[p])
    /\ \A k \in 1..n : Count(batch[p][k], DataOf(bs)) = 1
    /\ Len(OfPusher(p, DataOf(bs))) = n
    /\ \A i \in DOMAIN bs :
          LET mine == OfPusher(p, bs[i].data)
          IN \A j \in 1..(Len(mine) - 1) : mine[j][2] < mine[j + 1][2]

\* A push_anns call of p returns in this step.
PushReturns(p) == pc[p] # "done" /\ pc'[p] = "done"

IsFull(tb) == tb # None /\ NextAnnIndex(tb[1]) = BufCap

\* C8 as stated: push_anns returns less than the batch size only with the spare
\* consumed and the active buffer full at the time of the return; the count is
\* the number of records this call stored, the first count records of the batch.
C8_PartialOnlyWhenFull ==
    [][\A p \in Pushers :
          /\ (PushReturns(p) /\ ret'[p].count < Len(batch[p]))
                => (ret'[p].buf = None /\ IsFull(topbuf))
          /\ PushReturns(p) => StoredPrefix(p, ret'[p].count, AllBufs')]_vars

\* C8 amended: push_anns returns less than the batch size only with the spare
\* consumed and after a fast-path attempt that found the active slot empty or
\* left the active buffer full; the count is the number of records this call
\* stored, the first count records of the batch, in order.
C8_PartialAfterFullAttempt ==
    [][\A p \in Pushers :
          /\ (PushReturns(p) /\ ret'[p].count < Len(batch[p]))
                => (ret'[p].buf = None /\ maybe_buf[p] = None /\ pc[p] = "take")
          /\ (pc[p] = "fast" /\ pc'[p] = "take") => (topbuf' = None \/ IsFull(topbuf'))
          /\ (pc[p] # "take" /\ pc'[p] = "take") => pc[p] = "fast"
          /\ PushReturns(p) => StoredPrefix(p, ret'[p].count, AllBufs')]_vars

\* A call returned part of its batch, having stored records in two buffers.
C8_Witness ==
    \E p \in Pushers :
        /\ pc[p] = "done" /\ ret[p].buf = None
        /\ 0 < ret[p].count /\ ret[p].count < Len(batch[p])
        /\ \E i, j \in DOMAIN AllBufs :
              /\ i # j
              /\ OfPusher(p, AllBufs[i].data) # << >>
              /\ OfPusher(p, AllBufs[j].data) # << >>

\* The ids of the buffers the class holds.
ClassIds == {ClassBufs[i].id : i \in DOMAIN ClassBufs}
AllIds == {AllBufs[i].id : i \in DOMAIN AllBufs}

\* Pusher p installs its spare as the active buffer in this step.
Installs(p) == topbuf' # None /\ topbuf'[1].id = p /\ (topbuf = None \/ topbuf[1].id # p)

\* C9: push_anns returns the spare exactly when it did not install it; it
\* installs it only under the write lock and only when the active slot is empty
\* or the active buffer could not take all remaining records; a call that
\* returns the spare leaves the class's buffers the same; no buffer is both
\* returned and held by the class.
C9_SpareInstalledOnlyWhenNeeded ==
    [][\A p \in Pushers :
          /\ Installs(p)
                => /\ writer = Some(p)
                   /\ \/ topbuf = None
                      \/ AnnBufConsumed(topbuf[1], indexes[p]) < Len(indexes[p])
          /\ PushReturns(p)
                => /\ ret'[p].buf # None <=> p \notin AllIds'
                   /\ ret'[p].buf # None
                         => (ret'[p].buf = Some(AnnBuf(p, << >>, FALSE)) /\ ClassIds' = ClassIds)]_vars

\* C10: a push_anns call that runs alone, with n records for an active buffer of
\* r < n free slots and n - r within a spare's capacity, puts the first r records
\* in the old active buffer, appends that buffer, frozen, to bufs, makes the spare
\* the active buffer holding the other n - r, returns (n, None), and raises
\* ready_anns by the fill count of the displaced buffer.
C10_RotateOnce ==
    [][\A p \in Pushers :
          (PushReturns(p) /\ pre[p].topbuf # None)
              => LET old == pre[p].topbuf[1]
                     n == Len(batch[p])
                     r == BufCap - NextAnnIndex(old)
                     displaced == [id |-> old.id,
                                   data |-> old.data \o SubSeq(batch[p], 1, r),
                                   locked |-> TRUE]
                 IN (r < n /\ n - r <= BufCap)
                       => /\ bufs' = Append(pre[p].bufs, displaced)
                          /\ topbuf' = Some([id |-> p,
                                             data |-> SubSeq(batch[p], r + 1, n),
                                             locked |-> FALSE])
                          /\ ret'[p] = [returned |-> TRUE, count |-> n, buf |-> None]
                          /\ ReadyAnns(bufs') =
                                ReadyAnns(pre[p].bufs) + NextAnnIndex(displaced)]_vars

\* An empty active buffer and no frozen one, one record more than a buffer
\* holds pushed: the full buffer is frozen, the spare holds one record, and
\* ready_anns is a buffer's capacity.
C10_Witness ==
    \E p \in Pushers :
        /\ pc[p] = "done" /\ Len(batch[p]) = BufCap + 1
        /\ ret[p] = [returned |-> TRUE, count |-> BufCap + 1, buf |-> None]
        /\ pre[p] = [bufs |-> << >>, topbuf |-> Some(AnnBuf(0, << >>, FALSE))]
        /\ Len(bufs) = 1 /\ bufs[1].id = 0 /\ bufs[1].locked
        /\ ReadyAnns(bufs) = BufCap
        /\ topbuf # None /\ topbuf[1].id = p /\ NextAnnIndex(topbuf[1]) = 1

\* A query returns in this step (a repeated query that returns the same value
\* again leaves the state as it is).
Answers(op) == qret' # qret /\ qret'[1] = op

\* C11: ready_anns returns the number of records held by the buffers of bufs,
\* not counting topbuf nor a displaced buffer not yet inserted; ready_anns_bufs
\* returns that number and the length of bufs, as they are in one state.
C11_ReadyCountsFrozenOnly ==
    [][/\ Answers("ready_anns") => qret'[2] = Len(DataOf(bufs))
       /\ Answers("ready_anns_bufs")
             => (qret'[2] = Len(DataOf(bufs)) /\ qret'[3] = Len(bufs))
       /\ (Answers("ready_anns") \/ Answers("ready_anns_bufs")) => bufs' = bufs]_vars

\* One full frozen buffer was counted while the class also had an active buffer
\* and a pusher held a displaced buffer full of records.
C11_Witness ==
    /\ qret = <<"ready_anns_bufs", BufCap, 1>>
    /\ Len(bufs) = 1
    /\ topbuf # None
    /\ \E p \in Pushers : oldtop[p] # None /\ NextAnnIndex(oldtop[p][1]) = BufCap

\* C14: is_dead returns true if and only if, in the state it observes, bufs is
\* empty and topbuf is None.
C14_DeadIffNoBuffers ==
    [][Answers("is_dead")
          => /\ qret'[2] <=> (ClassBufs = << >>)
             /\ UNCHANGED <<bufs, topbuf>>]_vars

\* is_dead returned true after the only buffer, the active one, was stolen.
C14_Witness ==
    /\ qret = <<"is_dead", TRUE>>
    /\ \E s \in Stealers : HoldsBuffer(s) /\ sret[s].buf[1].id = 0
    /\ bufs = << >> /\ topbuf = None

\* Where the records of the i-th buffer of bs start in their concatenation.
Offset(bs, i) == Len(DataOf(SubSeq(bs, 1, i - 1)))

\* C12: read_ready_anns given a slice of at least ready_anns entries fills its
\* prefix with the contents of the buffers of bufs in order, the i-th buffer
\* writing exactly its fill count of entries from the sum of the fill counts of
\* the buffers before it, and nothing else; bufs does not change while the copy
\* runs; with a shorter slice the call panics, copying nothing.
C12_CopyReadyConcatenates ==
    [][\A c \in Copiers :
          /\ (cpc = "idle" /\ cpc' # "idle")
                => /\ cpc' = "panic" <=> Len(out') < Len(DataOf(bufs))
                   /\ cpc' = "copy" <=> c \in readers'
                   /\ \A j \in DOMAIN out' : out'[j] = Blank
          /\ cpc = "copy" => (bufs' = bufs /\ writer' = None)
          /\ (cpc = "copy" /\ out' # out)
                => \E i \in DOMAIN bufs :
                      \A j \in DOMAIN out :
                         out'[j] = IF Offset(bufs, i) < j
                                      /\ j <= Offset(bufs, i) + NextAnnIndex(bufs[i])
                                   THEN bufs[i].data[j - Offset(bufs, i)]
                                   ELSE out[j]
          /\ (cpc = "copy" /\ cpc' = "done")
                => /\ SubSeq(out, 1, Len(DataOf(bufs))) = DataOf(bufs)
                   /\ \A j \in DOMAIN out : j > Len(DataOf(bufs)) => out[j] = Blank
                   /\ out' = out]_vars

\* Two frozen buffers were copied into a slice one entry longer than needed,
\* while a pusher waited to insert the buffer it had displaced.
C12_Witness ==
    /\ cpc = "done"
    /\ Len(bufs) = 2
    /\ out = DataOf(bufs) \o <<Blank>>
    /\ \E p \in Pushers : pc[p] = "insert"

\* C13: for every height h and every block_height, ann_effective_work(h) is the
\* degraded target for age h - block_height when h <= block_height + 3 and
\* min_ann_work when h > block_height + 3, the sum and the age being computed
\* without overflow or underflow (so that no call panics).
C13_EffectiveWorkNoOverflow ==
    eret.called
        => LET h == eret.next_block_height
           IN /\ eret.value # Panicked
              /\ h <= block_height + 3
                    => eret.value = PcDegradeAnnouncementTarget(min_ann_work, h - block_height)
              /\ h > block_height + 3 => eret.value = Undegraded(min_ann_work)

\* A thread about to ask for the class lock holds it neither way.
NoSelfWait ==
    /\ \A p \in Pushers :
          pc[p] \in {"rlock", "wlock", "insert"} => (p \notin readers /\ writer # Some(p))
    /\ \A s \in Stealers : pc[s] = "idle" => writer # Some(s)
    /\ \A c \in Copiers : cpc = "idle" => c \notin readers

\* C15: under fair scheduling every push_anns call that was made returns,
\* whatever its batch and whatever the other pushes, the steal and the copy do
\* (a call that runs out of buffers returns its partial count), and no thread
\* asks for the class lock while holding it.
C15_PushEventuallyReturns ==
    /\ []NoSelfWait
    /\ \A p \in Pushers : (pc[p] \notin {"idle", "done"}) ~> (pc[p] = "done")

\* A call waited for the write lock while the copy held the read lock, and has
\* returned a partial count.
C15_Witness ==
    \E p \in Pushers :
        /\ pc[p] = "done" /\ ret[p].count < Len(batch[p]) /\ ret[p].buf = None
        /\ cpc = "done" /\ out # << >>
        /\ \E s \in Stealers : pc[s] = "done"

\* C16: when push_anns replaces a present active buffer with its spare, the
\* displaced buffer is full (under the write lock it took fewer than the
\* remaining records), whatever other writers did since the fast path; when
\* the attempt under the write lock takes all remaining records there is no
\* rotation and the spare is returned.
C16_DoubleCheckBeforeRotate ==
    [][\A p \in Pushers :
          /\ (Installs(p) /\ topbuf # None)
                => /\ writer = Some(p)
                   /\ oldtop'[p] # None /\ oldtop'[p][1].id = topbuf[1].id
                   /\ IsFull(oldtop'[p])
                   /\ AnnBufConsumed(topbuf[1], indexes[p]) < Len(indexes[p])
          /\ (pc[p] = "rotate" /\ pc'[p] # "rotate" /\ topbuf # None
                /\ AnnBufConsumed(topbuf[1], indexes[p]) = Len(indexes[p]))
                => /\ PushReturns(p)
                   /\ ret'[p].buf = Some(AnnBuf(p, << >>, FALSE))
                   /\ topbuf'[1].id = topbuf[1].id
                   /\ UNCHANGED <<bufs, oldtop>>]_vars

\* The buffer of the given id among bs; the id of the active buffer, if any.
BufOf(bs, id) == bs[CHOOSE i \in DOMAIN bs : bs[i].id = id]
TopId == IF topbuf = None THEN None ELSE Some(topbuf[1].id)

\* C17: a buffer's contents change only while it is the active buffer, not
\* frozen, by a pusher that holds the class lock (for reading on the fast
\* path, for writing in the double check); the active buffer is displaced or
\* stolen, and bufs changes, only while no thread holds the lock for reading,
\* so no append overlaps a rotation or a steal; no buffer is ever lost.
C17_AppendOnlyToActive ==
    [][/\ \A id \in AllIds :
             /\ id \in AllIds'
             /\ BufOf(AllBufs', id).data # BufOf(AllBufs, id).data
                   => /\ TopId = Some(id)
                      /\ ~topbuf[1].locked
                      /\ \E p \in Pushers :
                            \/ pc[p] = "fast" /\ p \in readers /\ writer = None
                            \/ pc[p] = "rotate" /\ writer = Some(p)
       /\ (TopId' # TopId \/ bufs' # bufs) => readers = {}
       /\ writer # None => readers = {}]_vars

\* A call appended on the fast path to a buffer that another call has since
\* displaced and a steal has since taken.
C17_Witness ==
    \E p, q \in Pushers, s \in Stealers :
        /\ p # q
        /\ pc[q] = "done" /\ ret[q].count > 0
        /\ HoldsBuffer(s)
        /\ OfPusher(q, sret[s].buf[1].data) # << >>
        /\ OfPusher(p, sret[s].buf[1].data) # << >>
        /\ sret[s].buf[1].locked

\* A buffer displaced by pusher p and not yet inserted is in no place where
\* steal_buf, ready_anns or read_ready_anns would find it.
Unobservable(p) ==
    LET id == oldtop[p][1].id
    IN /\ id \notin ClassIds
       /\ \A s \in Stealers : sret[s].buf # None => sret[s].buf[1].id # id
       /\ \A i \in DOMAIN v : v[i].b.id # id
       /\ \A q \in Pushers \ {p} : oldtop[q] # None => oldtop[q][1].id # id

\* C18: a displaced buffer is first held by the pusher alone, then locked, then
\* appended to bufs: while the pusher holds it, it is neither in bufs nor the
\* active buffer nor in a steal's or a copy's hands; it is locked when it is
\* appended; every buffer of bufs is locked and no buffer is in two places; and
\* under fair scheduling every displaced buffer is eventually appended.
C18_DisplacedFrozenInserted ==
    /\ [](/\ \A p \in Pushers :
               /\ oldtop[p] # None <=> pc[p] \in {"freeze", "insert"}
               /\ oldtop[p] # None => Unobservable(p)
               /\ pc[p] = "insert" => oldtop[p][1].locked
          /\ \A i \in DOMAIN bufs : bufs[i].locked
          /\ Cardinality(AllIds) = Len(AllBufs))
    /\ [][\A p \in Pushers :
             /\ (oldtop[p] = None /\ oldtop'[p] # None)
                   => (TopId = Some(oldtop'[p][1].id) /\ pc'[p] = "freeze")
             /\ (pc[p] = "freeze" /\ pc'[p] # "freeze") => pc'[p] = "insert"
             /\ (oldtop[p] # None /\ oldtop'[p] = None)
                   => (pc[p] = "insert" /\ bufs' = Append(bufs, oldtop[p][1]))]_vars
    /\ \A p \in Pushers : (oldtop[p] # None) ~> (oldtop[p] = None)

\* The initial active buffer was displaced, the spare installed in its place was
\* stolen before the displaced buffer was inserted, and it is in bufs now.
C18_Witness ==
    /\ dseq = <<0>>
    /\ Len(bufs) = 1 /\ bufs[1].id = 0 /\ bufs[1].locked
    /\ \A p \in Pushers : oldtop[p] = None
    /\ \E s \in Stealers : HoldsBuffer(s) /\ sret[s].buf[1].id \in Pushers

\* The records in the buffers steal_buf has returned.
StolenRecords ==
    UNION {{sret[s].buf[1].data[i] : i \in DOMAIN sret[s].buf[1].data} :
              s \in {t \in Stealers : sret[t].buf # None}}

\* C19: whenever is_dead returns true, every record a returned push_anns call
\* reported as consumed is in a buffer steal_buf has returned, and no pusher
\* holds a displaced buffer with records that it will insert into bufs.
C19_DeadOnlyWhenAllStolen ==
    [][(Answers("is_dead") /\ qret'[2])
          => /\ \A p \in Pushers : oldtop[p] = None \/ oldtop[p][1].data = << >>
             /\ \A p \in Pushers :
                   pc[p] = "done"
                       => \A k \in 1..ret[p].count : batch[p][k] \in StolenRecords]_vars

\* Where id stands in the order of displacement.
Displaced(id) == \E i \in DOMAIN dseq : dseq[i] = id
DisplacedAt(id) == CHOOSE i \in DOMAIN dseq : dseq[i] = id

\* C20 as stated: the buffers of bufs that were displaced from the active slot
\* are in bufs in the order in which they were displaced (so that the last one,
\* which steal_buf returns, is the most recently displaced of them).
C20_FrozenInDisplacementOrder ==
    \A i, j \in DOMAIN bufs :
        (i < j /\ Displaced(bufs[i].id) /\ Displaced(bufs[j].id))
            => DisplacedAt(bufs[i].id) < DisplacedAt(bufs[j].id)

\* C20 amended: bufs is in order of insertion: it changes only by a pusher
\* appending the buffer it displaced earlier at the end, or by steal_buf
\* removing and returning the last, most recently inserted, buffer; a buffer
\* displaced earlier can be inserted later than one displaced after it.
C20_FrozenInInsertionOrder ==
    [][bufs' # bufs
          => \/ \E p \in Pushers :
                   /\ pc[p] = "insert" /\ pc'[p] # "insert"
                   /\ Displaced(oldtop[p][1].id)
                   /\ bufs' = Append(bufs, oldtop[p][1])
             \/ \E s \in Stealers :
                   /\ pc[s] = "inval" /\ pc'[s] = "done"
                   /\ bufs # << >>
                   /\ bufs' = SubSeq(bufs, 1, Len(bufs) - 1)
                   /\ sret'[s] = Ok(Some(bufs[Len(bufs)]))]_vars

\* Two buffers were displaced and inserted the other way round: steal_buf has
\* returned the one displaced first, bufs still holds the one displaced second.
C20_Witness ==
    /\ Len(dseq) = 2
    /\ Len(bufs) = 1 /\ bufs[1].id = dseq[2]
    /\ \E s \in Stealers : HoldsBuffer(s) /\ sret[s].buf[1].id = dseq[1]

====
